---- MODULE Spec2Model ----
(***************************************************************************)
(* Fragments habit tracker: the daily-progress timer and completion        *)
(* accounting engine of the App component (src/components/MoodBar.tsx,     *)
(* lines 104-567) and the HabitCard guard that exposes the timer button.   *)
(*                                                                         *)
(* Time is the wall clock Date.now() in clock units; UnitsPerSecond clock  *)
(* units make one second (1000 ms in the program), SecondsPerMinute        *)
(* seconds one minute (60), DayLength seconds one calendar day (86400) and *)
(* TIMER_MAX_DURATION_SECONDS the session ceiling (2 h).  The model keeps  *)
(* the order  minute < ceiling < day  of the program at a small scale.     *)
(* The user's timezone is fixed, so getTodayInTimezone is the day index of *)
(* the clock.                                                              *)
(***************************************************************************)
EXTENDS Integers, FiniteSets, Sequences, TLC

UnitsPerSecond == 2
SecondsPerMinute == 1
TIMER_MAX_DURATION_SECONDS == 2
DayLength == 3
MaxClock == 9
MaxSteps == 3

Habits == {1, 2}

UnitsPerDay == DayLength * UnitsPerSecond

VARIABLES
  now,           \* Date.now(), in clock units
  running,       \* TRUE while the App component is mounted
  habits,        \* ids of the habit catalog
  cfg,           \* the Habit record of every id
  logs,          \* Record<string, DailyLog>, keyed by date
  today,         \* the stored "today" pointer
  activeTimers,  \* Record<string, TimerEntry>, in memory
  savedTimers,   \* localStorage 'habitly_active_timers'
  userTimezone,  \* localStorage 'habitly_timezone', "" when nothing is stored
  uncaught,      \* the error an operation raised and nothing caught
  categories,    \* the category catalog
  corrupt,       \* the localStorage keys whose stored value JSON.parse rejects
  writeFails,    \* TRUE while setItem('habitly_active_timers', ..) throws
  weekOffset,    \* Statistics: the week shown, 0 = the current week
  userWeekStart, \* the configured first day of the week
  weekDays,      \* Statistics: the dates of the week shown
  last           \* history: the operation that ran last, see InitOp

vars == <<now, running, habits, cfg, logs, today, activeTimers, savedTimers,
          userTimezone, uncaught, categories, corrupt, writeFails,
          weekOffset, userWeekStart, weekDays, last>>

-----------------------------------------------------------------------------
(* JavaScript helpers *)

Min(a, b) == IF a <= b THEN a ELSE b
Max(a, b) == IF a >= b THEN a ELSE b

\* the empty object {}
EmptyMap == [x \in {} |-> 0]

\* { ...m, [k]: v }
Put(m, k, v) == [x \in (DOMAIN m) \cup {k} |-> IF x = k THEN v ELSE m[x]]

\* const { [k]: _, ...rest } = m
Rest(m, k) == [x \in (DOMAIN m) \ {k} |-> m[x]]

\* the YYYY-MM-DD date of instant t in the system default zone
DateOf(t) == t \div UnitsPerDay

\* Intl.DateTimeFormat().resolvedOptions().timeZone
SystemTimeZone == "UTC"

\* the zone names Intl.DateTimeFormat accepts
SupportedTimeZones == {"UTC", "Asia/Tokyo"}

\* how far the civil time of a zone is ahead of the system default zone
utcOffset(tz) == IF tz = "Asia/Tokyo" THEN UnitsPerSecond ELSE 0

\* formatDateInTimezone(new Date(t), timezone): the constructor of
\* Intl.DateTimeFormat throws a RangeError for a timeZone it does not know,
\* and the function has no try/catch
formatDateInTimezone(t, timezone) ==
  LET tz == IF timezone = "" THEN SystemTimeZone ELSE timezone
  IN  IF tz \in SupportedTimeZones
      THEN [threw |-> FALSE, date |-> DateOf(t + utcOffset(tz))]
      ELSE [threw |-> TRUE]

\* getTodayInTimezone(userTimezone), where it returns
getTodayInTimezone == formatDateInTimezone(now, userTimezone).date

-----------------------------------------------------------------------------
(* Habit catalog *)

Habit(fmt, st, g, sv, rv, otv) ==
  [goalFormat |-> fmt, stepType |-> st, goal |-> g, stepValue |-> sv,
   rewardValue |-> rv, oneTimeValue |-> otv]

\* A missing optional number and 0 are both falsy; both are written 0.
MinSingle    == Habit("min",   "single",   1, 0, 1, 0)
TimesSingle  == Habit("times", "single",   0, 0, 2, 1)
TimesMulti   == Habit("times", "multiple", 2, 1, 2, 0)
TimesMultiR0 == Habit("times", "multiple", 2, 1, 0, 0)
MinMultiK0   == Habit("min",   "multiple", 1, 2, 1, 0)
MoneySingle  == Habit("$",     "single",   0, 1, 0, 1)
MoneyMulti   == Habit("$",     "multiple", 2, 1, 0, 0)
\* a single-step money habit as the form saves it: the step value field is
\* shown for multi-step habits only, so stepValue is undefined
MoneySingleS0 == Habit("$",    "single",   2, 0, 0, 0)
\* multi-step habits saved with the goal left empty, and with a step larger
\* than the goal
TimesMultiG0 == Habit("times", "multiple", 0, 1, 2, 0)
MoneyMultiK0 == Habit("$",     "multiple", 1, 2, 0, 0)
\* a multi-step habit saved with the step value left empty
MinMultiS0   == Habit("min",   "multiple", 2, 0, 1, 0)

\* the habit catalogs the model starts from
Catalogs ==
  { <<MinSingle, TimesSingle>>, <<MinSingle, TimesMulti>>,
    <<TimesSingle, TimesMultiR0>>, <<MinSingle, MinMultiK0>>,
    <<TimesSingle, MoneySingle>>, <<MinSingle, MoneyMulti>>,
    <<MoneySingleS0, TimesMultiG0>>, <<MinMultiS0, MoneyMultiK0>> }

\* HabitCard: the timer button is rendered only when hasTimer
hasTimer(habit) ==
  LET isMultiStep == habit.stepType = "multiple"
      goalSeconds == IF habit.goal # 0 /\ habit.goalFormat = "min"
                     THEN habit.goal * SecondsPerMinute ELSE 0
      isGoalHabit == goalSeconds > 0 /\ ~isMultiStep
  IN  (isGoalHabit \/ habit.oneTimeValue # 0) /\ ~isMultiStep

-----------------------------------------------------------------------------
(* Progress store *)

DefaultProgress ==
  [completed |-> FALSE, completions |-> 0, elapsedTime |-> 0,
   stepsCompleted |-> 0, moneyEarned |-> 0, skipped |-> FALSE]

DefaultLog == [mood |-> 0, progress |-> EmptyMap]

\* lg[d] || { date: d, mood: 0, progress: {} }
LogOf(lg, d) == IF d \in DOMAIN lg THEN lg[d] ELSE DefaultLog

\* progress[h] || { habitId, completed: false, completions: 0, ... }
ProgressOf(log, h) ==
  IF h \in DOMAIN log.progress THEN log.progress[h] ELSE DefaultProgress

\* { ...p, ...update }
MergeOverDefaults(p, update) ==
  [f \in DOMAIN p |->
     IF f \in DOMAIN update THEN update[f] ELSE DefaultProgress[f]]
Merge(p, update) ==
  [f \in DOMAIN p |-> IF f \in DOMAIN update THEN update[f] ELSE p[f]]

\* the setLogs updater of updateHabitProgress, on date d
MergeProgress(lg, d, h, update) ==
  LET existingLog == LogOf(lg, d)
      existingProgress == ProgressOf(existingLog, h)
  IN  Put(lg, d, [existingLog EXCEPT
                    !.progress = Put(@, h, Merge(existingProgress, update))])

currentLog == LogOf(logs, today)

-----------------------------------------------------------------------------
(* Timer engine *)

TimerEntry(s, a) == [startedAt |-> s, accumulatedTime |-> a]

\* Math.min(Math.floor(acc + (Date.now() - startedAt) / 1000), MAX) at clock t
computeElapsedTimeSessionOnly(timer, t) ==
  Min((t - timer.startedAt) \div UnitsPerSecond, TIMER_MAX_DURATION_SECONDS)
computeElapsedTimeUncapped(timer, t) ==
  (timer.accumulatedTime * UnitsPerSecond + (t - timer.startedAt))
    \div UnitsPerSecond
computeElapsedTime(timer, t) ==
  Min((timer.accumulatedTime * UnitsPerSecond + (t - timer.startedAt))
        \div UnitsPerSecond,
      TIMER_MAX_DURATION_SECONDS)

\* the elapsed value the restore effect computes (no ceiling)
resumeElapsed(timer, t) ==
  (timer.accumulatedTime * UnitsPerSecond + (t - timer.startedAt))
    \div UnitsPerSecond

\* the setLogs updater of syncTimersToLogs: every timer of `timers` gets its
\* elapsed time written into the log of the current wall-clock date
RECURSIVE SyncInto(_, _, _, _)
SyncInto(lg, timers, d, t) ==
  IF DOMAIN timers = {} THEN lg
  ELSE LET h == CHOOSE x \in DOMAIN timers : TRUE
       IN  SyncInto(MergeProgress(lg, d, h,
                      [elapsedTime |-> computeElapsedTime(timers[h], t)]),
                    Rest(timers, h), d, t)

syncTimersToLogs(lg, timers) ==
  IF DOMAIN timers = {} THEN lg
  ELSE SyncInto(lg, timers, getTodayInTimezone, now)

\* the setLogs updater inside stopTimer
stopTimerLogsCompleting(lg, h, timer) ==
  MergeProgress(lg, getTodayInTimezone, h,
                [elapsedTime |-> computeElapsedTime(timer, now),
                 completed |-> TRUE])
stopTimerLogs(lg, h, timer) ==
  MergeProgress(lg, getTodayInTimezone, h,
                [elapsedTime |-> computeElapsedTime(timer, now)])

-----------------------------------------------------------------------------
(* History of the run *)

\* `last` describes the step that led to the state: the operation, its habit,
\* the record it found (for increment and decrement), and the most recent
\* timer start while that timer exists: its habit, the entry toggleTimer
\* created and the elapsedTime today's record held
InitOp ==
  [op |-> "init", h |-> 0, pre |-> DefaultProgress,
   startH |-> 0, start |-> TimerEntry(0, 0), startE |-> 0]

Op(name, h) ==
  IF last.startH \in (DOMAIN activeTimers) \cup (DOMAIN savedTimers)
  THEN [last EXCEPT !.op = name, !.h = h, !.pre = DefaultProgress]
  ELSE [InitOp EXCEPT !.op = name, !.h = h]

\* one habit of `ids`, 0 when there is none
anyOf(ids) == IF ids = {} THEN 0 ELSE CHOOSE x \in ids : TRUE

-----------------------------------------------------------------------------
(* localStorage and the Statistics view *)

\* the keys the App component parses with JSON.parse when it is opened
StorageKeys == {"habits", "categories", "logs", "timers"}

\* DEFAULT_CATEGORIES, and a catalog the user has edited
DEFAULT_CATEGORIES == "default"
EditedCategories == "edited"

storeVars == <<categories, corrupt, writeFails>>
statsVars == <<weekOffset, userWeekStart, weekDays>>

\* every stored value parses and every write succeeds
storeDefault ==
  /\ categories = DEFAULT_CATEGORIES
  /\ corrupt = {}
  /\ writeFails = FALSE

\* the Statistics view has not been opened
statsDefault ==
  /\ weekOffset = 0
  /\ userWeekStart = "monday"
  /\ weekDays = <<>>

\* saveActiveTimers throws inside a setActiveTimers updater: the updater runs
\* while React renders, nothing catches the error, React unmounts the tree
\* and the state updates queued with it are not committed
renderCrash(err) ==
  /\ uncaught' = err
  /\ running' = FALSE
  /\ activeTimers' = EmptyMap
  /\ UNCHANGED <<habits, logs, today, savedTimers, corrupt>>

\* saveActiveTimers returned: the stored snapshot parses again
snapshotWritten ==
  /\ corrupt' = corrupt \ {"timers"}
  /\ UNCHANGED <<running, uncaught>>

-----------------------------------------------------------------------------
Init ==
  /\ now = 0
  /\ running = TRUE
  /\ habits = Habits
  /\ cfg \in Catalogs
  /\ logs = EmptyMap
  /\ today = DateOf(0)
  /\ activeTimers = EmptyMap
  /\ savedTimers = EmptyMap
  /\ userTimezone = ""
  /\ uncaught = "none"
  /\ storeDefault
  /\ statsDefault
  /\ last = InitOp

\* the wall clock advances by one clock unit
Advance ==
  /\ now < MaxClock
  /\ now' = now + 1
  /\ UNCHANGED <<running, habits, cfg, logs, today, activeTimers, savedTimers>>
  /\ UNCHANGED <<userTimezone, uncaught, storeVars, statsVars>>
  /\ last' = Op("Advance", 0)

\* the entry toggleTimer creates when it starts a timer:
\* { startedAt: Date.now(), accumulatedTime: currentElapsed }
startEntryFresh(log, h, t) == TimerEntry(t, 0)
startEntry(log, h, t) == TimerEntry(t, ProgressOf(log, h).elapsedTime)

\* toggleTimer(habitId)
toggleTimer(h) ==
  /\ running
  /\ h \in habits
  /\ hasTimer(cfg[h])
  /\ IF writeFails
     THEN renderCrash("QuotaExceededError")
     ELSE /\ IF h \in DOMAIN activeTimers
             THEN /\ logs' = MergeProgress(logs, today, h,
                               [elapsedTime |->
                                  computeElapsedTime(activeTimers[h], now)])
                  /\ activeTimers' = Rest(activeTimers, h)
             ELSE /\ activeTimers' =
                       Put(activeTimers, h, startEntry(currentLog, h, now))
                  /\ logs' = logs
          /\ savedTimers' = activeTimers'
          /\ snapshotWritten
          /\ UNCHANGED <<habits, today>>
  /\ UNCHANGED <<now, cfg, userTimezone, categories, writeFails, statsVars>>
  /\ last' = IF h \in DOMAIN activeTimers \/ writeFails
              THEN Op("toggleTimer", h)
              ELSE [Op("toggleTimer", h) EXCEPT
                      !.startH = h, !.start = activeTimers'[h],
                      !.startE = ProgressOf(currentLog, h).elapsedTime]

\* the timers of `timers` whose elapsed time has reached the ceiling at t
expiredTimersNone(timers, t) == {}
expiredTimersStrict(timers, t) ==
  {h \in DOMAIN timers :
     computeElapsedTime(timers[h], t) > TIMER_MAX_DURATION_SECONDS}
expiredTimers(timers, t) ==
  {h \in DOMAIN timers :
     computeElapsedTime(timers[h], t) >= TIMER_MAX_DURATION_SECONDS}

\* stopTimer(id) for every id of `ids`: the log side
RECURSIVE stopAllLogs(_, _, _)
stopAllLogs(lg, ids, timers) ==
  IF ids = {} THEN lg
  ELSE LET h == CHOOSE x \in ids : TRUE
       IN  stopAllLogs(stopTimerLogs(lg, h, timers[h]), ids \ {h}, timers)

\* stopTimer(id) for every id of `ids`: the timer side
withoutTimers(timers, ids) == [h \in (DOMAIN timers) \ ids |-> timers[h]]

\* the body shared by the 1 s interval and the visibility handler: stop every
\* timer at the ceiling, then sync activeTimersRef.current, which still holds
\* the timers of the last render
autoStopAndSyncRebase ==
  LET timersRef == activeTimers
      stopped == expiredTimers(timersRef, now)
  IN  /\ activeTimers' =
           [h \in (DOMAIN activeTimers) \ stopped |->
              TimerEntry(now, computeElapsedTime(activeTimers[h], now))]
      /\ savedTimers' = activeTimers'
      /\ logs' = syncTimersToLogs(stopAllLogs(logs, stopped, timersRef), timersRef)
autoStopAndSyncUnsaved ==
  LET timersRef == activeTimers
      stopped == expiredTimers(timersRef, now)
  IN  /\ activeTimers' = withoutTimers(activeTimers, stopped)
      /\ savedTimers' = savedTimers
      /\ logs' = syncTimersToLogs(stopAllLogs(logs, stopped, timersRef), timersRef)
autoStopAndSync ==
  LET timersRef == activeTimers
      stopped == expiredTimers(timersRef, now)
  IN  /\ activeTimers' = withoutTimers(activeTimers, stopped)
      /\ savedTimers' = IF stopped = {} THEN savedTimers ELSE activeTimers'
      /\ logs' = syncTimersToLogs(stopAllLogs(logs, stopped, timersRef), timersRef)

\* the 1 s interval of the UI refresh effect, which exists while a timer runs
tick ==
  /\ running
  /\ DOMAIN activeTimers # {}
  /\ IF expiredTimers(activeTimers, now) = {}
     THEN /\ autoStopAndSync
          /\ UNCHANGED <<running, uncaught, corrupt>>
     ELSE IF writeFails
     THEN renderCrash("QuotaExceededError")
     ELSE /\ autoStopAndSync
          /\ snapshotWritten
  /\ UNCHANGED <<now, habits, cfg, today>>
  /\ UNCHANGED <<userTimezone, categories, writeFails, statsVars>>
  /\ last' = Op("tick", 0)

\* the body of handleVisibilityChange after its early return: the loop over
\* activeTimersRef.current that stops the timers at the ceiling, then the
\* sync of activeTimersRef.current
visibleSyncOnly ==
  /\ UNCHANGED <<activeTimers, savedTimers>>
  /\ logs' = syncTimersToLogs(logs, activeTimers)
visibleStopAndSync ==
  LET timers == activeTimers
      over == {id \in DOMAIN timers :
                 computeElapsedTime(timers[id], now) >= TIMER_MAX_DURATION_SECONDS}
      rest == [id \in (DOMAIN timers) \ over |-> timers[id]]
  IN  /\ activeTimers' = rest
      /\ savedTimers' = IF over = {} THEN savedTimers ELSE rest
      /\ logs' = syncTimersToLogs(stopAllLogs(logs, over, timers), timers)

\* handleVisibilityChange with document.visibilityState = 'visible'
onVisible ==
  /\ running
  /\ IF DOMAIN activeTimers = {}
     THEN UNCHANGED <<logs, activeTimers, savedTimers, running, uncaught,
                      corrupt>>
     ELSE IF expiredTimers(activeTimers, now) = {}
     THEN /\ visibleStopAndSync
          /\ UNCHANGED <<running, uncaught, corrupt>>
     ELSE IF writeFails
     THEN renderCrash("QuotaExceededError")
     ELSE /\ visibleStopAndSync
          /\ snapshotWritten
  /\ UNCHANGED <<now, habits, cfg, today>>
  /\ UNCHANGED <<userTimezone, categories, writeFails, statsVars>>
  /\ last' = Op("onVisible", 0)

\* the 60 s interval of the day rollover effect; saveActiveTimers is its last
\* statement, so when it throws the state updates are already queued and the
\* error leaves the interval callback
dayRolloverCheckResetFirst ==
  /\ running
  /\ LET current == getTodayInTimezone
     IN  IF current # today
         THEN /\ logs' = syncTimersToLogs(logs, EmptyMap)
              /\ today' = current
              /\ activeTimers' = EmptyMap
              /\ IF writeFails
                 THEN /\ uncaught' = "QuotaExceededError"
                      /\ UNCHANGED <<savedTimers, corrupt>>
                 ELSE /\ savedTimers' = EmptyMap
                      /\ corrupt' = corrupt \ {"timers"}
                      /\ uncaught' = uncaught
         ELSE UNCHANGED <<logs, today, activeTimers, savedTimers, uncaught,
                          corrupt>>
  /\ UNCHANGED <<now, running, habits, cfg>>
  /\ UNCHANGED <<userTimezone, categories, writeFails, statsVars>>
  /\ last' = IF getTodayInTimezone # today
              THEN Op("dayRolloverCheck", anyOf(DOMAIN activeTimers))
              ELSE Op("dayRolloverCheck", 0)
dayRolloverCheck ==
  /\ running
  /\ LET current == getTodayInTimezone
     IN  IF current # today
         THEN /\ logs' = syncTimersToLogs(logs, activeTimers)
              /\ today' = current
              /\ activeTimers' = EmptyMap
              /\ IF writeFails
                 THEN /\ uncaught' = "QuotaExceededError"
                      /\ UNCHANGED <<savedTimers, corrupt>>
                 ELSE /\ savedTimers' = EmptyMap
                      /\ corrupt' = corrupt \ {"timers"}
                      /\ uncaught' = uncaught
         ELSE UNCHANGED <<logs, today, activeTimers, savedTimers, uncaught,
                          corrupt>>
  /\ UNCHANGED <<now, running, habits, cfg>>
  /\ UNCHANGED <<userTimezone, categories, writeFails, statsVars>>
  /\ last' = IF getTodayInTimezone # today
              THEN Op("dayRolloverCheck", anyOf(DOMAIN activeTimers))
              ELSE Op("dayRolloverCheck", 0)

\* the entries of the persisted snapshot the restore effect keeps
stillActiveRestarted(parsed, t) ==
  [h \in {x \in DOMAIN parsed :
            resumeElapsed(parsed[x], t) < TIMER_MAX_DURATION_SECONDS}
     |-> TimerEntry(t, resumeElapsed(parsed[h], t))]
stillActive(parsed, t) ==
  [h \in {x \in DOMAIN parsed :
            resumeElapsed(parsed[x], t) < TIMER_MAX_DURATION_SECONDS}
     |-> parsed[h]]

\* the value a state initializer reads from localStorage: JSON.parse of the
\* stored text, the default when the key is corrupt
loadedUnchecked(key, stored, default) == stored
loaded(key, stored, default) == IF key \in corrupt THEN default ELSE stored

\* the page is opened: state initializers, then the restore effect, whose
\* try block ends at the first statement that throws, then the save effect,
\* which writes the habits, categories and logs just loaded
mount ==
  /\ ~running
  /\ IF formatDateInTimezone(now, userTimezone).threw
     THEN /\ uncaught' = "RangeError"
          /\ UNCHANGED <<running, today, activeTimers, savedTimers, logs,
                          habits, categories, corrupt>>
     ELSE /\ running' = TRUE
          /\ habits' = loaded("habits", habits, {})
          /\ categories' = loaded("categories", categories, DEFAULT_CATEGORIES)
          /\ today' = getTodayInTimezone
          /\ corrupt' = corrupt \cap {"timers"}
          /\ uncaught' = uncaught
          /\ IF "timers" \in corrupt
             THEN /\ activeTimers' = EmptyMap
                  /\ savedTimers' = savedTimers
                  /\ logs' = loaded("logs", logs, EmptyMap)
             ELSE /\ activeTimers' = stillActive(savedTimers, now)
                  /\ IF writeFails
                     THEN /\ savedTimers' = savedTimers
                          /\ logs' = loaded("logs", logs, EmptyMap)
                     ELSE /\ savedTimers' = activeTimers'
                          /\ logs' = syncTimersToLogs(
                                        loaded("logs", logs, EmptyMap),
                                        activeTimers')
  /\ UNCHANGED <<now, cfg, userTimezone, writeFails, statsVars>>
  /\ last' = Op("mount", 0)

\* the page is closed: the component state is gone, localStorage stays
unmount ==
  /\ running
  /\ running' = FALSE
  /\ activeTimers' = EmptyMap
  /\ UNCHANGED <<now, habits, cfg, logs, today, savedTimers>>
  /\ UNCHANGED <<userTimezone, uncaught, storeVars, statsVars>>
  /\ last' = Op("unmount", 0)

\* deleteHabit(id)
deleteHabit(h) ==
  /\ running
  /\ h \in habits
  /\ IF h \notin DOMAIN activeTimers
     THEN /\ habits' = habits \ {h}
          /\ UNCHANGED <<activeTimers, savedTimers, running, uncaught,
                          corrupt, logs, today>>
     ELSE IF writeFails
     THEN renderCrash("QuotaExceededError")
     ELSE /\ habits' = habits \ {h}
          /\ activeTimers' = Rest(activeTimers, h)
          /\ savedTimers' = activeTimers'
          /\ snapshotWritten
          /\ UNCHANGED <<logs, today>>
  /\ UNCHANGED <<now, cfg, userTimezone, categories, writeFails, statsVars>>
  /\ last' = Op("deleteHabit", h)

-----------------------------------------------------------------------------
(* Completion accounting *)

\* habit.goal && habit.stepValue ? Math.floor(habit.goal / habit.stepValue) : 0
stepsCountOfAtLeastOne(habit) ==
  IF habit.goal # 0 /\ habit.stepValue # 0
  THEN Max(1, habit.goal \div habit.stepValue) ELSE 1
stepsCountOf(habit) ==
  IF habit.goal # 0 /\ habit.stepValue # 0
  THEN habit.goal \div habit.stepValue ELSE 0

\* habit.rewardValue || 1
rewardOf(habit) == IF habit.rewardValue # 0 THEN habit.rewardValue ELSE 1

\* habit.goal || habit.oneTimeValue || 0
incrementMinsOf(habit) ==
  IF habit.goal # 0 THEN habit.goal ELSE habit.oneTimeValue

\* the partial update handleIncrementCompletion passes to updateHabitProgress
incrementUpdatePerStep(habit, existingProgress) ==
  [stepsCompleted |-> existingProgress.stepsCompleted + 1,
   completions |-> existingProgress.completions + rewardOf(habit),
   completed |-> TRUE]
incrementUpdate(habit, existingProgress) ==
  LET isMoneyGoal == habit.goalFormat = "$"
      isMultiStep == habit.stepType = "multiple"
      stepsCount == stepsCountOf(habit)
      newSteps == existingProgress.stepsCompleted + 1
      cyclesCompleted == IF stepsCount > 0 THEN newSteps \div stepsCount ELSE 0
      hasCompletedFirstCycle == stepsCount > 0 /\ newSteps >= stepsCount
  IN  IF isMultiStep
      THEN IF isMoneyGoal
           THEN [stepsCompleted |-> newSteps,
                 moneyEarned |-> existingProgress.moneyEarned + habit.stepValue,
                 completed |-> hasCompletedFirstCycle]
           ELSE [stepsCompleted |-> newSteps,
                 completions |-> cyclesCompleted * rewardOf(habit),
                 completed |-> hasCompletedFirstCycle]
      ELSE IF isMoneyGoal
           THEN [moneyEarned |-> existingProgress.moneyEarned + habit.stepValue,
                 completed |-> TRUE]
           ELSE [completions |-> existingProgress.completions + rewardOf(habit),
                 completed |-> TRUE,
                 elapsedTime |-> existingProgress.elapsedTime
                                   + incrementMinsOf(habit) * SecondsPerMinute]

\* TRUE when handleDecrementCompletion returns before any update
decrementReturnsOnMissing(habit, log, h) == h \notin DOMAIN log.progress
decrementReturns(habit, log, h) ==
  \/ h \notin DOMAIN log.progress
  \/ /\ habit.stepType = "multiple"
     /\ log.progress[h].stepsCompleted <= 0
  \/ /\ habit.stepType # "multiple"
     /\ habit.goalFormat # "$"
     /\ log.progress[h].completions <= 0

\* the partial update handleDecrementCompletion passes to updateHabitProgress
decrementUpdateKeepsTime(habit, existingProgress) ==
  LET newSteps == Max(0, existingProgress.stepsCompleted - 1)
      newCompletions == Max(0, existingProgress.completions - rewardOf(habit))
  IN  IF habit.stepType = "multiple"
      THEN [stepsCompleted |-> newSteps,
            completed |-> stepsCountOf(habit) > 0 /\ newSteps >= stepsCountOf(habit)]
      ELSE [completions |-> newCompletions, completed |-> newCompletions > 0]
decrementUpdateStepsOnly(habit, existingProgress) ==
  LET newCompletions == Max(0, existingProgress.completions - rewardOf(habit))
  IN  IF habit.stepType = "multiple"
      THEN [stepsCompleted |-> Max(0, existingProgress.stepsCompleted - 1)]
      ELSE IF habit.goalFormat = "$"
           THEN [moneyEarned |-> Max(0, existingProgress.moneyEarned - habit.stepValue),
                 completed |-> existingProgress.moneyEarned - habit.stepValue > 0]
           ELSE [completions |-> newCompletions, completed |-> newCompletions > 0]
decrementUpdateUnclamped(habit, existingProgress) ==
  LET isMoneyGoal == habit.goalFormat = "$"
      newSteps == existingProgress.stepsCompleted - 1
      newCompletions == existingProgress.completions - rewardOf(habit)
  IN  IF habit.stepType = "multiple"
      THEN [stepsCompleted |-> newSteps,
            completed |-> stepsCountOf(habit) > 0 /\ newSteps >= stepsCountOf(habit)]
      ELSE IF isMoneyGoal
           THEN [moneyEarned |-> existingProgress.moneyEarned - habit.stepValue,
                 completed |-> existingProgress.moneyEarned - habit.stepValue > 0]
           ELSE [completions |-> newCompletions,
                 completed |-> newCompletions > 0,
                 elapsedTime |-> existingProgress.elapsedTime
                                   - incrementMinsOf(habit) * SecondsPerMinute]
decrementUpdate(habit, existingProgress) ==
  LET isMoneyGoal == habit.goalFormat = "$"
      isMultiStep == habit.stepType = "multiple"
      stepsCount == stepsCountOf(habit)
      newSteps == Max(0, existingProgress.stepsCompleted - 1)
      cyclesCompleted == IF stepsCount > 0 THEN newSteps \div stepsCount ELSE 0
      newCompletions == Max(0, existingProgress.completions - rewardOf(habit))
  IN  IF isMultiStep
      THEN IF isMoneyGoal
           THEN [stepsCompleted |-> newSteps,
                 moneyEarned |-> Max(0, existingProgress.moneyEarned - habit.stepValue),
                 completed |-> stepsCount > 0 /\ newSteps >= stepsCount]
           ELSE [stepsCompleted |-> newSteps,
                 completions |-> cyclesCompleted * rewardOf(habit),
                 completed |-> stepsCount > 0 /\ newSteps >= stepsCount]
      ELSE IF isMoneyGoal
           THEN [moneyEarned |-> Max(0, existingProgress.moneyEarned - habit.stepValue),
                 completed |-> existingProgress.moneyEarned - habit.stepValue > 0]
           ELSE [completions |-> newCompletions,
                 completed |-> newCompletions > 0,
                 elapsedTime |-> Max(0, existingProgress.elapsedTime
                                          - incrementMinsOf(habit) * SecondsPerMinute)]

\* updateHabitProgress(habitId, update)
updateHabitProgress(lg, h, update) == MergeProgress(lg, today, h, update)

\* the model stops counting at MaxSteps increments of one record
belowCap(habit, p) ==
  /\ p.stepsCompleted < MaxSteps
  /\ p.completions < MaxSteps * rewardOf(habit)
  /\ p.moneyEarned < MaxSteps * Max(1, habit.stepValue)

\* handleIncrementCompletion(habitId)
handleIncrementCompletion(h) ==
  /\ running
  /\ IF h \notin habits
     THEN logs' = logs
     ELSE /\ belowCap(cfg[h], ProgressOf(currentLog, h))
          /\ logs' = updateHabitProgress(logs, h,
                       incrementUpdate(cfg[h], ProgressOf(currentLog, h)))
  /\ UNCHANGED <<now, running, habits, cfg, today, activeTimers, savedTimers>>
  /\ UNCHANGED <<userTimezone, uncaught, storeVars, statsVars>>
  /\ last' = [Op("increment", h) EXCEPT !.pre = ProgressOf(currentLog, h)]

\* handleDecrementCompletion(habitId)
handleDecrementCompletion(h) ==
  /\ running
  /\ IF h \notin habits \/ decrementReturns(cfg[h], currentLog, h)
     THEN logs' = logs
     ELSE logs' = updateHabitProgress(logs, h,
                    decrementUpdate(cfg[h], currentLog.progress[h]))
  /\ UNCHANGED <<now, running, habits, cfg, today, activeTimers, savedTimers>>
  /\ UNCHANGED <<userTimezone, uncaught, storeVars, statsVars>>
  /\ last' = IF last.op = "increment" /\ last.h = h
              THEN [last EXCEPT !.op = "incrementDecrement"]
              ELSE [Op("decrement", h) EXCEPT
                      !.pre = ProgressOf(currentLog, h)]

\* handleSkipHabit(habitId)
handleSkipHabit(h) ==
  /\ running
  /\ h \in habits
  /\ logs' = updateHabitProgress(logs, h,
               [skipped |-> ~ProgressOf(currentLog, h).skipped])
  /\ UNCHANGED <<now, running, habits, cfg, today, activeTimers, savedTimers>>
  /\ UNCHANGED <<userTimezone, uncaught, storeVars, statsVars>>
  /\ last' = Op("handleSkipHabit", h)

\* the moods the model's user picks
Moods == {0, 3}

\* updateMood(mood)
updateMood(m) ==
  /\ running
  /\ logs' = Put(logs, today, [currentLog EXCEPT !.mood = m])
  /\ UNCHANGED <<now, running, habits, cfg, today, activeTimers, savedTimers>>
  /\ UNCHANGED <<userTimezone, uncaught, storeVars, statsVars>>
  /\ last' = Op("updateMood", 0)

-----------------------------------------------------------------------------
(* The timer engine with the accounting of habits that have a timer *)

TimerCatalogs == { <<MinSingle, MinSingle>>, <<TimesSingle, TimesSingle>> }

\* a catalog of one habit
InitTimer ==
  /\ now = 0
  /\ running = TRUE
  /\ habits = {1}
  /\ cfg \in TimerCatalogs
  /\ logs = EmptyMap
  /\ today = DateOf(0)
  /\ activeTimers = EmptyMap
  /\ savedTimers = EmptyMap
  /\ userTimezone = ""
  /\ uncaught = "none"
  /\ storeDefault
  /\ statsDefault
  /\ last = InitOp

NextTimer ==
  \/ Advance
  \/ tick
  \/ onVisible
  \/ dayRolloverCheck
  \/ mount
  \/ unmount
  \/ \E h \in Habits : toggleTimer(h)
  \/ \E h \in Habits : deleteHabit(h)
  \/ \E h \in Habits : handleIncrementCompletion(h)
  \/ \E h \in Habits : handleDecrementCompletion(h)

SpecTimer == InitTimer /\ [][NextTimer]_vars

(* Completion accounting over every kind of habit *)

NextAcct ==
  \/ \E h \in Habits : handleIncrementCompletion(h)
  \/ \E h \in Habits : handleDecrementCompletion(h)
  \/ \E h \in Habits : handleSkipHabit(h)
  \/ \E m \in Moods : updateMood(m)

SpecAcct == Init /\ [][NextAcct]_vars

(* Completion accounting on the day after a day with a log *)

\* the log collection the logs initializer reads from localStorage: the log
\* of the day before, with a mood and a habit marked as skipped
YesterdayLogs ==
  Put(EmptyMap, 0,
      [mood |-> 3,
       progress |-> Put(EmptyMap, 1, [DefaultProgress EXCEPT !.skipped = TRUE])])

InitFrame ==
  /\ now = UnitsPerDay
  /\ running = TRUE
  /\ habits = Habits
  /\ cfg \in Catalogs
  /\ logs = YesterdayLogs
  /\ today = DateOf(now)
  /\ activeTimers = EmptyMap
  /\ savedTimers = EmptyMap
  /\ userTimezone = ""
  /\ uncaught = "none"
  /\ storeDefault
  /\ statsDefault
  /\ last = InitOp

SpecFrame == InitFrame /\ [][NextAcct]_vars

(* The timer engine opened with a stored timezone name *)

\* the names localStorage may hold: none, two the runtime knows, and one it
\* does not know
StoredTimezones == {"", "UTC", "Asia/Tokyo", "Mars/Phobos"}

InitZone ==
  /\ now = 0
  /\ running = FALSE
  /\ habits = {1}
  /\ cfg = <<MinSingle, MinSingle>>
  /\ logs = EmptyMap
  /\ today = DateOf(0)
  /\ activeTimers = EmptyMap
  /\ savedTimers = EmptyMap
  /\ userTimezone \in StoredTimezones
  /\ uncaught = "none"
  /\ storeDefault
  /\ statsDefault
  /\ last = InitOp

NextZone ==
  \/ Advance
  \/ mount
  \/ unmount
  \/ tick
  \/ dayRolloverCheck
  \/ \E h \in Habits : toggleTimer(h)

SpecZone == InitZone /\ [][NextZone]_vars

(* Every operation on a catalog of one habit of every kind *)

AllCatalogs ==
  { <<MinSingle, MinSingle>>, <<TimesMulti, TimesMulti>>,
    <<MoneySingle, MoneySingle>>, <<MoneyMulti, MoneyMulti>> }

InitAll ==
  /\ now = 0
  /\ running = TRUE
  /\ habits = {1}
  /\ cfg \in AllCatalogs
  /\ logs = EmptyMap
  /\ today = DateOf(0)
  /\ activeTimers = EmptyMap
  /\ savedTimers = EmptyMap
  /\ userTimezone = ""
  /\ uncaught = "none"
  /\ storeDefault
  /\ statsDefault
  /\ last = InitOp

NextAll ==
  \/ NextTimer
  \/ \E h \in Habits : handleSkipHabit(h)

SpecAll == InitAll /\ [][NextAll]_vars

(* The application opened on what an earlier session, or a damaged store, *)
(* left in localStorage *)

\* a log the earlier session left: one second recorded for habit 1
EarlierLogs == MergeProgress(EmptyMap, DateOf(0), 1, [elapsedTime |-> 1])

InitLoad ==
  /\ now = 0
  /\ running = FALSE
  /\ habits = {1}
  /\ cfg = <<MinSingle, MinSingle>>
  /\ logs \in {EmptyMap, EarlierLogs}
  /\ today = DateOf(0)
  /\ activeTimers = EmptyMap
  /\ savedTimers \in {EmptyMap, Put(EmptyMap, 1, TimerEntry(0, 0))}
  /\ userTimezone = ""
  /\ uncaught = "none"
  /\ categories \in {DEFAULT_CATEGORIES, EditedCategories}
  /\ corrupt \in SUBSET StorageKeys
  /\ writeFails = FALSE
  /\ statsDefault
  /\ last = InitOp

SpecLoad == InitLoad /\ [][NextZone]_vars

(* The timer engine on a store whose snapshot write may fail *)

\* the browser starts or stops rejecting the write of the timer snapshot
\* (QuotaExceededError of localStorage.setItem)
quotaChange ==
  /\ writeFails' = ~writeFails
  /\ UNCHANGED <<now, running, habits, cfg, logs, today, activeTimers,
                 savedTimers, userTimezone, uncaught, categories, corrupt,
                 statsVars>>
  /\ last' = Op("quotaChange", 0)

InitQuota ==
  /\ now = 0
  /\ running = TRUE
  /\ habits = {1}
  /\ cfg = <<MinSingle, MinSingle>>
  /\ logs = EmptyMap
  /\ today = DateOf(0)
  /\ activeTimers = EmptyMap
  /\ savedTimers = EmptyMap
  /\ userTimezone = ""
  /\ uncaught = "none"
  /\ storeDefault
  /\ statsDefault
  /\ last = InitOp

NextQuota ==
  \/ NextZone
  \/ onVisible
  \/ quotaChange
  \/ \E h \in Habits : deleteHabit(h)

SpecQuota == InitQuota /\ [][NextQuota]_vars

(* The week shown by the Statistics view *)

MaxDays == 8
MaxWeeks == 2

\* Date.prototype.getDay(): 0 = Sunday .. 6 = Saturday; date 0 is 1970-01-01,
\* a Thursday
getDay(d) == (d + 4) % 7

\* getWeekDaysInTimezone(weekOffset, timezone) with new Date() = now: the
\* seven dates from the Monday on or before today, shifted by weekOffset weeks
getWeekDaysInTimezone(offset, timezone) ==
  LET todayDate == formatDateInTimezone(now, timezone).date
      dayOfWeek == getDay(todayDate)
      mondayOffset == IF dayOfWeek = 0 THEN -6 ELSE 1 - dayOfWeek
      monday == todayDate + mondayOffset + (offset * 7)
  IN  [i \in 1..7 |-> monday + (i - 1)]

\* Statistics: getWeekDaysInTimezone(weekOffset, userTimezone, userWeekStart);
\* the function declares two parameters, a third argument is dropped
weekDaysShown(offset, timezone, weekStart) ==
  getWeekDaysInTimezone(offset, timezone)

timerVars ==
  <<now, running, habits, cfg, logs, today, activeTimers, savedTimers,
    userTimezone, uncaught, storeVars>>

\* the ChevronLeft button: setWeekOffset(prev => prev - 1), then the render
prevWeek ==
  /\ weekOffset > -MaxWeeks
  /\ weekOffset' = weekOffset - 1
  /\ weekDays' = weekDaysShown(weekOffset', userTimezone, userWeekStart)
  /\ UNCHANGED <<timerVars, userWeekStart>>
  /\ last' = Op("prevWeek", 0)

\* the ChevronRight button: setWeekOffset(prev => prev + 1), then the render
nextWeek ==
  /\ weekOffset < MaxWeeks
  /\ weekOffset' = weekOffset + 1
  /\ weekDays' = weekDaysShown(weekOffset', userTimezone, userWeekStart)
  /\ UNCHANGED <<timerVars, userWeekStart>>
  /\ last' = Op("nextWeek", 0)

\* the userWeekStart prop changes, then the render
setWeekStart(ws) ==
  /\ ws # userWeekStart
  /\ userWeekStart' = ws
  /\ weekDays' = weekDaysShown(weekOffset, userTimezone, ws)
  /\ UNCHANGED <<timerVars, weekOffset>>
  /\ last' = Op("setWeekStart", 0)

\* the Statistics view opened at any instant of the first MaxDays days
InitWeek ==
  /\ now \in 0 .. (MaxDays * UnitsPerDay - 1)
  /\ running = TRUE
  /\ habits = {1}
  /\ cfg = <<MinSingle, MinSingle>>
  /\ logs = EmptyMap
  /\ userTimezone \in SupportedTimeZones
  /\ today = getTodayInTimezone
  /\ activeTimers = EmptyMap
  /\ savedTimers = EmptyMap
  /\ uncaught = "none"
  /\ storeDefault
  /\ weekOffset = 0
  /\ userWeekStart = "monday"
  /\ weekDays = weekDaysShown(weekOffset, userTimezone, userWeekStart)
  /\ last = InitOp

NextWeek ==
  \/ prevWeek
  \/ nextWeek
  \/ \E ws \in {"monday", "sunday"} : setWeekStart(ws)

SpecWeek == InitWeek /\ [][NextWeek]_vars

(* The timer engine on two habits, opened on a day that already has a log *)

\* today's log after an increment of habit 2, a skip of habit 1 and a mood
PairLogs ==
  LET counted == MergeProgress(EmptyMap, DateOf(0), 2,
                               incrementUpdate(TimesSingle, DefaultProgress))
      skipped == MergeProgress(counted, DateOf(0), 1, [skipped |-> TRUE])
  IN  Put(skipped, DateOf(0), [skipped[DateOf(0)] EXCEPT !.mood = 3])

InitPair ==
  /\ now = 0
  /\ running = TRUE
  /\ habits = Habits
  /\ cfg = <<MinSingle, TimesSingle>>
  /\ logs = PairLogs
  /\ today = DateOf(0)
  /\ activeTimers = EmptyMap
  /\ savedTimers = EmptyMap
  /\ userTimezone = ""
  /\ uncaught = "none"
  /\ storeDefault
  /\ statsDefault
  /\ last = InitOp

NextPair ==
  \/ Advance
  \/ tick
  \/ onVisible
  \/ dayRolloverCheck
  \/ mount
  \/ unmount
  \/ \E h \in Habits : toggleTimer(h)
  \/ \E h \in Habits : deleteHabit(h)

SpecPair == InitPair /\ [][NextPair]_vars

(* The timer engine of one habit while the clock runs and the 1 s interval *)
(* of the UI refresh effect keeps firing *)

InitLive == InitQuota

NextLive ==
  \/ NextZone
  \/ onVisible
  \/ \E h \in Habits : deleteHabit(h)

\* the wall clock advances; setInterval(.., 1000) delivers its callback for
\* as long as the effect that created it is not cleaned up
SpecLive ==
  /\ InitLive
  /\ [][NextLive]_vars
  /\ WF_vars(Advance)
  /\ WF_vars(tick)

-----------------------------------------------------------------------------
(* Properties *)

MAX_SESSION_SECONDS == TIMER_MAX_DURATION_SECONDS

\* the progress record of habit h in the log of date d, defaults when absent
Recorded(lg, d, h) == ProgressOf(LogOf(lg, d), h)

\* the derived elapsed time of section 4.2 in whole seconds:
\* min(accumulatedTime + (now - startedAt), MAX_SESSION_SECONDS)
DerivedElapsed(timer, t) ==
  Min(timer.accumulatedTime + (t - timer.startedAt) \div UnitsPerSecond,
      MAX_SESSION_SECONDS)

\* accumulatedTime + (now - startedAt) >= MAX_SESSION_SECONDS
AtCeiling(timer, t) ==
  timer.accumulatedTime * UnitsPerSecond + (t - timer.startedAt)
    >= MAX_SESSION_SECONDS * UnitsPerSecond

isSingleCount(habit) ==
  habit.stepType # "multiple" /\ habit.goalFormat \in {"times", "min"}

isMultiCount(habit) ==
  habit.stepType = "multiple" /\ habit.goalFormat \in {"times", "min"}

\* an ActiveTimer of h exists: in memory while the page is open, in the
\* persisted snapshot while it is closed
isRunning(h) ==
  IF running THEN h \in DOMAIN activeTimers ELSE h \in DOMAIN savedTimers

timerOf(h) == IF running THEN activeTimers[h] ELSE savedTimers[h]

\* C1 -- Day-boundary isolation.  When the rollover check moves the pointer
\* from date D to a later date, every timer started on D has its elapsed time
\* finalized into the log of D, is no longer running, and the log of the new
\* date shows elapsedTime 0 (or no record) for its habit.
C1_DayBoundaryIsolation ==
  [][ (last'.op = "dayRolloverCheck" /\ today' # today) =>
        \A h \in DOMAIN activeTimers :
          DateOf(activeTimers[h].startedAt) = today =>
            /\ h \notin DOMAIN activeTimers'
            /\ Recorded(logs', today, h).elapsedTime
                 = DerivedElapsed(activeTimers[h], now)
            /\ Recorded(logs', today', h).elapsedTime = 0 ]_vars

\* C2 -- Resume of an expired timer.  When the restore effect finds a
\* persisted entry with accumulatedTime + (now - startedAt) at or over the
\* ceiling, the habit is not running afterwards and today's elapsedTime of
\* the habit is exactly MAX_SESSION_SECONDS.
C2_ResumeExpired ==
  [][ last'.op = "mount" =>
        \A h \in DOMAIN savedTimers :
          AtCeiling(savedTimers[h], now) =>
            /\ h \notin DOMAIN activeTimers'
            /\ Recorded(logs', today', h).elapsedTime = MAX_SESSION_SECONDS ]_vars

\* C3 -- Cancellation always finalizes.  Whenever toggling off, deleting the
\* habit or the day rollover discards an ActiveTimer, the elapsed time derived
\* at that instant has been written to the habit's progress record, so the
\* record (in the log of the stored date or of the wall-clock date) holds no
\* less than it: no accumulated time is dropped.
C3_CancellationFinalizes ==
  [][ \A h \in DOMAIN activeTimers :
        ( /\ last'.op \in {"toggleTimer", "deleteHabit", "dayRolloverCheck"}
          /\ h \notin DOMAIN activeTimers' ) =>
          \E d \in {today, DateOf(now)} :
            Recorded(logs', d, h).elapsedTime
              >= DerivedElapsed(activeTimers[h], now) ]_vars

\* C4 -- Round trip.  For a single-step count/time habit with rewardValue >= 1,
\* handleIncrementCompletion followed at once by handleDecrementCompletion
\* leaves completions, completed and elapsedTime of today's record as they
\* were before the increment.
C4_IncrementDecrementRoundTrip ==
  \A h \in habits :
    ( /\ last.op = "incrementDecrement"
      /\ last.h = h
      /\ isSingleCount(cfg[h])
      /\ cfg[h].rewardValue >= 1 ) =>
      /\ Recorded(logs, today, h).completions = last.pre.completions
      /\ Recorded(logs, today, h).completed = last.pre.completed
      /\ Recorded(logs, today, h).elapsedTime = last.pre.elapsedTime

\* the round trip ran on a record that a timer and earlier increments filled
C4_Witness ==
  \E h \in habits :
    /\ last.op = "incrementDecrement"
    /\ last.h = h
    /\ isSingleCount(cfg[h])
    /\ cfg[h].rewardValue >= 1
    /\ last.pre.completions > 0
    /\ last.pre.elapsedTime
         > (last.pre.completions \div cfg[h].rewardValue)
             * incrementMinsOf(cfg[h]) * SecondsPerMinute

\* stepsPerCycle k = floor(goal / stepValue) of a configured multi-step habit
stepsPerCycle(habit) == habit.goal \div habit.stepValue

hasCycle(habit) ==
  isMultiCount(habit) /\ habit.stepValue > 0
    /\ stepsPerCycle(habit) >= 1

\* the cycle-floor rule with r fragments per cycle, over one step of habit h
CycleFloor(h, r) ==
  LET k == stepsPerCycle(cfg[h])
      p == Recorded(logs, today, h)
      q == Recorded(logs', today', h)
  IN  /\ q.completions = (q.stepsCompleted \div k) * r
      /\ q.completed = (q.stepsCompleted >= k)
      /\ (last'.op = "increment" /\ last'.h = h) =>
           /\ q.stepsCompleted = p.stepsCompleted + 1
           /\ p.completed => q.completed
      /\ ( /\ last'.op \in {"decrement", "incrementDecrement"}
           /\ last'.h = h
           /\ p.stepsCompleted > 0 ) =>
           q.stepsCompleted = p.stepsCompleted - 1

\* C5 as stated -- Cycle-floor rule.  For a multi-step count/time habit with
\* k = floor(goal/stepValue) >= 1, every increment adds one to stepsCompleted
\* (so n increments from an empty record give n), completions = floor(n/k) *
\* rewardValue and completed = (n >= k), and an increment never resets
\* completed.
C5_CycleFloorStated ==
  [][ \A h \in habits :
        hasCycle(cfg[h]) => CycleFloor(h, cfg[h].rewardValue) ]_vars

\* C5 as amended -- the same rule with the fragments per cycle the code
\* grants: rewardValue, and 1 when rewardValue is missing or 0.
C5_CycleFloor ==
  [][ \A h \in habits :
        hasCycle(cfg[h]) =>
          CycleFloor(h, IF cfg[h].rewardValue >= 1
                        THEN cfg[h].rewardValue ELSE 1) ]_vars

\* the increment after a full cycle: k + 1 steps, still one cycle of reward
C5_Witness ==
  \E h \in habits :
    /\ hasCycle(cfg[h])
    /\ last.op = "increment"
    /\ last.h = h
    /\ stepsPerCycle(cfg[h]) >= 2
    /\ Recorded(logs, today, h).stepsCompleted = stepsPerCycle(cfg[h]) + 1
    /\ Recorded(logs, today, h).completions > 0
    /\ Recorded(logs, today, h).completed

\* C6 -- Auto-stop boundary.  A timer whose derived elapsed time is at or
\* over the ceiling when tick() or onVisible() runs is not active afterwards,
\* and the elapsedTime written for its habit is exactly MAX_SESSION_SECONDS.
C6_AutoStopBoundary ==
  [][ last'.op \in {"tick", "onVisible"} =>
        \A h \in DOMAIN activeTimers :
          AtCeiling(activeTimers[h], now) =>
            /\ h \notin DOMAIN activeTimers'
            /\ h \notin DOMAIN savedTimers'
            /\ Recorded(logs', DateOf(now), h).elapsedTime
                 = MAX_SESSION_SECONDS ]_vars

\* a tick has just stopped a timer that ran past the ceiling
C6_Witness ==
  /\ last.op = "tick"
  /\ DOMAIN activeTimers = {}
  /\ \E h \in habits :
       Recorded(logs, DateOf(now), h).elapsedTime = MAX_SESSION_SECONDS

\* C7 -- Elapsed-time formula and monotonicity.  At whole-second instants the
\* value computed for a running timer is min(accumulatedTime + (now -
\* startedAt), MAX_SESSION_SECONDS); it never decreases while the clock moves
\* forward and the entry stays; and a tick writes exactly that value.
C7_ElapsedFormulaMonotone ==
  [][ \A h \in DOMAIN activeTimers :
        LET timer == activeTimers[h]
        IN  /\ (now - timer.startedAt) % UnitsPerSecond = 0 =>
                 computeElapsedTime(timer, now)
                   = Min(timer.accumulatedTime
                           + (now - timer.startedAt) \div UnitsPerSecond,
                         MAX_SESSION_SECONDS)
            /\ ( /\ now' >= now
                 /\ h \in DOMAIN activeTimers'
                 /\ activeTimers'[h] = timer ) =>
                 computeElapsedTime(timer, now') >= computeElapsedTime(timer, now)
            /\ last'.op = "tick" =>
                 Recorded(logs', DateOf(now), h).elapsedTime
                   = computeElapsedTime(timer, now) ]_vars

\* a tick wrote the elapsed time of a timer that has run for whole seconds
C7_Witness ==
  /\ last.op = "tick"
  /\ \E h \in DOMAIN activeTimers :
       /\ now - activeTimers[h].startedAt >= UnitsPerSecond
       /\ (now - activeTimers[h].startedAt) % UnitsPerSecond = 0
       /\ Recorded(logs, DateOf(now), h).elapsedTime
            > activeTimers[h].accumulatedTime

\* C8 -- Timers never carry across a day boundary.  Once the stored pointer
\* is the current date, no running ActiveTimer was started on an earlier
\* date; in particular a timer resumed at process start is not.
C8_NoCarryAcrossDay ==
  (running /\ today = DateOf(now)) =>
    \A h \in DOMAIN activeTimers :
      DateOf(activeTimers[h].startedAt) = DateOf(now)

\* C9 -- Resume of a surviving timer.  A persisted entry with accumulatedTime
\* + (now - startedAt) below the ceiling is kept with the same startedAt and
\* accumulatedTime, and today's elapsedTime of its habit is set to
\* min(accumulatedTime + (now - startedAt), MAX_SESSION_SECONDS).
C9_ResumeSurvivor ==
  [][ last'.op = "mount" =>
        \A h \in DOMAIN savedTimers :
          ~AtCeiling(savedTimers[h], now) =>
            /\ h \in DOMAIN activeTimers'
            /\ activeTimers'[h] = savedTimers[h]
            /\ Recorded(logs', today', h).elapsedTime
                 = DerivedElapsed(savedTimers[h], now) ]_vars

\* the page was reopened with a timer that had run for a second or more
C9_Witness ==
  /\ last.op = "mount"
  /\ \E h \in DOMAIN activeTimers :
       /\ now - activeTimers[h].startedAt >= UnitsPerSecond
       /\ Recorded(logs, today, h).elapsedTime
            > activeTimers[h].accumulatedTime

\* C10 -- Per-habit timer state machine.  A toggle of a stopped habit creates
\* its one entry with startedAt = now and accumulatedTime = the habit's
\* elapsedTime in today's log; a toggle of a running habit writes the derived
\* elapsed time to today's record and removes the entry; a habit starts
\* running by a toggle only, and stops running only by a toggle, an auto-stop
\* (at a tick, on becoming visible, or found expired when the page reopens),
\* the deletion of the habit or the day rollover.
C10_TimerStateMachine ==
  [][ \A h \in Habits :
        /\ ( /\ last'.op = "toggleTimer" /\ last'.h = h
             /\ h \notin DOMAIN activeTimers ) =>
             /\ activeTimers' =
                  Put(activeTimers, h,
                      TimerEntry(now, Recorded(logs, today, h).elapsedTime))
             /\ logs' = logs
        /\ ( /\ last'.op = "toggleTimer" /\ last'.h = h
             /\ h \in DOMAIN activeTimers ) =>
             /\ activeTimers' = Rest(activeTimers, h)
             /\ Recorded(logs', today, h).elapsedTime
                  = DerivedElapsed(activeTimers[h], now)
        /\ (~isRunning(h) /\ isRunning(h)') =>
             (last'.op = "toggleTimer" /\ last'.h = h)
        /\ (isRunning(h) /\ ~isRunning(h)') =>
             \/ last'.op = "toggleTimer" /\ last'.h = h
             \/ /\ last'.op \in {"tick", "onVisible", "mount"}
                /\ AtCeiling(timerOf(h), now)
             \/ last'.op = "deleteHabit" /\ last'.h = h
             \/ last'.op = "dayRolloverCheck" /\ today' # today ]_vars

\* a timer was started on top of recorded time, and one was toggled off
C10_Witness ==
  /\ last.op = "toggleTimer"
  /\ \E h \in DOMAIN activeTimers :
       /\ last.h = h
       /\ activeTimers[h].startedAt = now
       /\ activeTimers[h].accumulatedTime > 0

\* C11: when the rollover check observes a date different from the stored
\* pointer, the timers running before the check are synced into the log (the
\* log of the observed date then holds each timer's derived elapsed time), the
\* active timer set is empty in memory and in the persisted snapshot after the
\* check, and the stored pointer equals the observed date.
C11_RolloverEffect ==
  [][ ( /\ last'.op = "dayRolloverCheck"
        /\ getTodayInTimezone # today )
      => ( /\ \A h \in DOMAIN activeTimers :
                 Recorded(logs', getTodayInTimezone, h).elapsedTime
                   = computeElapsedTime(activeTimers[h], now)
           /\ activeTimers' = EmptyMap
           /\ savedTimers' = EmptyMap
           /\ today' = getTodayInTimezone ) ]_vars

\* a rollover has just synced a running timer and reset it: the pointer moved
\* to the observed date, no timer is left, and the record of the new date is
\* the one the sync created
C11_Witness ==
  /\ last.op = "dayRolloverCheck"
  /\ last.h \in Habits
  /\ today = getTodayInTimezone
  /\ today > 0
  /\ activeTimers = EmptyMap
  /\ savedTimers = EmptyMap
  /\ \E h \in Habits :
       /\ h \in DOMAIN LogOf(logs, today).progress
       /\ Recorded(logs, today, h).elapsedTime > 0
       /\ Recorded(logs, today - 1, h).elapsedTime = 0
       /\ Recorded(logs, today, h).completions = 0

\* the completion condition of the decision table on the stored fields
isCompleted(habit, p) ==
  IF habit.stepType = "multiple"
  THEN stepsCountOf(habit) > 0 /\ p.stepsCompleted >= stepsCountOf(habit)
  ELSE IF habit.goalFormat = "$"
       THEN p.moneyEarned > 0
       ELSE p.completions > 0

\* C12: in every reachable state the stored completed flag of today's record
\* of every habit agrees with the decision table's condition on the stored
\* fields: completions > 0 (single-step count/time), moneyEarned > 0
\* (single-step money), stepsPerCycle > 0 and stepsCompleted >= stepsPerCycle
\* (multi-step).
C12_CompletedDerived ==
  \A h \in habits :
    Recorded(logs, today, h).completed
      = isCompleted(cfg[h], Recorded(logs, today, h))

\* C13: completions, stepsCompleted, moneyEarned and elapsedTime of every
\* DailyProgress of every date are >= 0 after any sequence of increment,
\* decrement, skip, timer toggle, tick, onVisible, resume and rollover.
C13_NonNegativeFields ==
  \A d \in DOMAIN logs :
    \A h \in DOMAIN logs[d].progress :
      /\ logs[d].progress[h].completions >= 0
      /\ logs[d].progress[h].stepsCompleted >= 0
      /\ logs[d].progress[h].moneyEarned >= 0
      /\ logs[d].progress[h].elapsedTime >= 0

\* a decrement has just been clamped at the floor: the subtraction from the
\* record it found would have gone below zero
C13_Witness ==
  /\ last.op = "decrement"
  /\ last.h \in habits
  /\ \/ /\ isSingleCount(cfg[last.h])
        /\ last.pre.completions > 0
        /\ last.pre.elapsedTime
             < incrementMinsOf(cfg[last.h]) * SecondsPerMinute
        /\ Recorded(logs, today, last.h).elapsedTime = 0
     \/ /\ cfg[last.h].goalFormat = "$"
        /\ cfg[last.h].stepType # "multiple"
        /\ last.h \in DOMAIN currentLog.progress
        /\ last.pre.moneyEarned < cfg[last.h].stepValue
        /\ Recorded(logs, today, last.h).moneyEarned = 0

\* the decrements the claim calls impossible
impossibleDecrement(h) ==
  \/ h \notin habits
  \/ h \notin DOMAIN currentLog.progress
  \/ /\ isSingleCount(cfg[h])
     /\ currentLog.progress[h].completions <= 0
  \/ /\ cfg[h].stepType = "multiple"
     /\ currentLog.progress[h].stepsCompleted <= 0

\* C14: handleDecrementCompletion for a single-step count/time habit with
\* completions <= 0, for a multi-step habit with stepsCompleted <= 0, for a
\* habit with no record today, or for an unknown habit id leaves the whole
\* log collection unchanged and creates no record.
C14_ImpossibleDecrementNoOp ==
  [][ \A h \in Habits :
        ( /\ last'.op \in {"decrement", "incrementDecrement"}
          /\ last'.h = h
          /\ impossibleDecrement(h) )
        => logs' = logs ]_vars

\* a decrement has just found a record of a known single-step count/time
\* habit with time on it and no completions, and has left it as it was
C14_Witness ==
  /\ last.op = "decrement"
  /\ last.h \in habits
  /\ isSingleCount(cfg[last.h])
  /\ last.h \in DOMAIN currentLog.progress
  /\ last.pre.completions = 0
  /\ last.pre.elapsedTime > 0
  /\ currentLog.progress[last.h] = last.pre

\* a multi-step habit whose goal or stepValue is missing or whose
\* floor(goal / stepValue) is 0
incompletelyConfigured(habit) ==
  /\ habit.stepType = "multiple"
  /\ \/ habit.goal = 0
     \/ habit.stepValue = 0
     \/ habit.goal \div habit.stepValue = 0

\* C15: for an incompletely configured multi-step habit stepsPerCycle is 0,
\* every increment and decrement leaves completed false and completions 0,
\* and stepsCompleted still counts: +1 per increment, -1 (floored at 0) per
\* decrement.
C15_IncompleteMultiStep ==
  [][ \A h \in habits :
        incompletelyConfigured(cfg[h])
        => ( /\ stepsCountOf(cfg[h]) = 0
             /\ Recorded(logs', today', h).completed = FALSE
             /\ Recorded(logs', today', h).completions = 0
             /\ ( last'.op = "increment" /\ last'.h = h )
                  => Recorded(logs', today', h).stepsCompleted
                       = Recorded(logs, today, h).stepsCompleted + 1
             /\ ( last'.op \in {"decrement", "incrementDecrement"}
                  /\ last'.h = h )
                  => Recorded(logs', today', h).stepsCompleted
                       = Max(0, Recorded(logs, today, h).stepsCompleted - 1) )
    ]_vars

\* an incompletely configured habit has been stepped past the number of steps
\* its goal would ask for with a step of 1, and then decremented once
C15_Witness ==
  \E h \in habits :
    /\ incompletelyConfigured(cfg[h])
    /\ last.op = "decrement"
    /\ last.h = h
    /\ last.pre.stepsCompleted = MaxSteps
    /\ Recorded(logs, today, h).stepsCompleted = MaxSteps - 1
    /\ Recorded(logs, today, h).stepsCompleted >= cfg[h].goal

\* the fields the partial update of the operation recorded in `op` names
namedFields(op, habit, p) ==
  IF op = "handleSkipHabit" THEN {"skipped"}
  ELSE IF op = "increment" THEN DOMAIN incrementUpdate(habit, p)
  ELSE DOMAIN decrementUpdate(habit, p)

\* C16: an increment, decrement or skip of habit h changes only the record of
\* h in the log of the stored today date: the logs of all other dates, the
\* records of all other habits and today's mood are unchanged, no other log
\* or record appears, and the fields of h's record the partial update does
\* not name keep their values.
C16_AccountingFrame ==
  [][ \A h \in Habits :
        ( /\ last'.op \in {"increment", "decrement", "incrementDecrement",
                            "handleSkipHabit"}
          /\ last'.h = h )
        => ( /\ DOMAIN logs' \subseteq (DOMAIN logs) \cup {today}
             /\ \A d \in (DOMAIN logs) \ {today} :
                  d \in DOMAIN logs' /\ logs'[d] = logs[d]
             /\ LogOf(logs', today).mood = LogOf(logs, today).mood
             /\ \A g \in Habits \ {h} :
                  /\ g \in DOMAIN LogOf(logs', today).progress
                       <=> g \in DOMAIN LogOf(logs, today).progress
                  /\ Recorded(logs', today, g) = Recorded(logs, today, g)
             /\ \A f \in (DOMAIN DefaultProgress)
                          \ namedFields(last'.op, cfg[h],
                                        Recorded(logs, today, h)) :
                  Recorded(logs', today, h)[f] = Recorded(logs, today, h)[f] )
    ]_vars

\* habit 1 has just been incremented on a day with a mood, a skipped mark on
\* its own record and progress of habit 2, the day after a day with a log
C16_Witness ==
  /\ last.op = "increment"
  /\ last.h = 1
  /\ today - 1 \in DOMAIN logs
  /\ logs[today - 1].mood = 3
  /\ currentLog.mood = 3
  /\ Recorded(logs, today, 1).skipped
  /\ Recorded(logs, today, 1) # last.pre
  /\ 2 \in DOMAIN currentLog.progress
  /\ Recorded(logs, today, 2) # DefaultProgress

\* C17: the elapsedTime finalized when a timer stops is a function of the
\* start instant, the accumulatedTime at the start and the stop instant
\* alone, whatever tick and onVisible passes ran in between: a stop by
\* toggle, and an auto-stop by a tick or onVisible pass, write
\* min(accumulatedTime + (stop - start), MAX_SESSION_SECONDS) in whole
\* seconds, computed from the entry toggleTimer created at the start.
C17_TickCountIndependence ==
  [][ \A h \in Habits :
        ( /\ last.startH = h
          /\ h \in DOMAIN activeTimers
          /\ h \notin DOMAIN activeTimers' )
        => ( /\ ( last'.op = "toggleTimer" /\ last'.h = h )
                  => Recorded(logs', today, h).elapsedTime
                       = DerivedElapsed(last.start, now)
             /\ last'.op \in {"tick", "onVisible"}
                  => Recorded(logs', getTodayInTimezone, h).elapsedTime
                       = DerivedElapsed(last.start, now) )
    ]_vars

\* a timer started on the date of the stored pointer has just been stopped by
\* toggle after midnight, before any rollover check; the record of the new
\* date can only come from a tick or onVisible pass of this session
C17_Witness ==
  /\ last.op = "toggleTimer"
  /\ last.startH = last.h
  /\ last.h \notin DOMAIN activeTimers
  /\ running
  /\ DateOf(last.start.startedAt) = today
  /\ getTodayInTimezone = today + 1
  /\ last.h \in DOMAIN LogOf(logs, today + 1).progress
  /\ Recorded(logs, today, last.h).elapsedTime
       > last.start.accumulatedTime

\* C18: for a multi-step habit (count/time or money) and any reachable
\* record, an increment directly followed by a decrement of the same habit
\* restores stepsCompleted, completions, moneyEarned and completed to the
\* values before the increment, also when the increment crossed a cycle
\* boundary.
C18_MultiStepRoundTrip ==
  \A h \in habits :
    ( /\ last.op = "incrementDecrement"
      /\ last.h = h
      /\ cfg[h].stepType = "multiple" )
    => ( /\ Recorded(logs, today, h).stepsCompleted = last.pre.stepsCompleted
         /\ Recorded(logs, today, h).completions = last.pre.completions
         /\ Recorded(logs, today, h).moneyEarned = last.pre.moneyEarned
         /\ Recorded(logs, today, h).completed = last.pre.completed )

\* the increment of the pair completed a cycle that the record before it had
\* not completed, and the decrement took it back
C18_Witness ==
  \E h \in habits :
    /\ last.op = "incrementDecrement"
    /\ last.h = h
    /\ isMultiCount(cfg[h])
    /\ stepsCountOf(cfg[h]) > 1
    /\ (last.pre.stepsCompleted + 1) % stepsCountOf(cfg[h]) = 0
    /\ ~last.pre.completed
    /\ Recorded(logs, today, h).stepsCompleted = last.pre.stepsCompleted

\* C19: when the application becomes visible, the resulting active timer
\* set, persisted snapshot and log collection are the ones the body of a
\* tick at the same instant produces from the same state.
C19_OnVisibleEqualsTick ==
  [][ last'.op = "onVisible" => autoStopAndSync ]_vars

\* the application has just become visible with a timer at the ceiling: the
\* timer is gone and the record of the date shows the ceiling
C19_Witness ==
  /\ last.op = "onVisible"
  /\ last.startH \in habits
  /\ last.startH \notin DOMAIN activeTimers
  /\ savedTimers = activeTimers
  /\ Recorded(logs, getTodayInTimezone, last.startH).elapsedTime
       = TIMER_MAX_DURATION_SECONDS

\* C20: getTodayInTimezone called with a timezone name the runtime does not
\* know never raises an uncaught error, and the application opened with such
\* a name runs with the date of the system default zone, so that toggle,
\* tick, resume and the rollover check keep working.
C20_UnknownTimezoneRecovered ==
  /\ uncaught = "none"
  /\ last.op = "mount" => running
  /\ ( /\ last.op = "mount"
       /\ userTimezone \notin SupportedTimeZones \cup {""} )
     => today = DateOf(now)

\* C21: a stored value JSON.parse rejects is treated as absent.  The page
\* opened on an unparsable habit catalog, category catalog, log collection or
\* timer snapshot starts with, respectively, no habits, DEFAULT_CATEGORIES,
\* no logs (but for what the resume writes for the timers it restored) and no
\* running timer, and neither opening it nor any later operation raises an
\* error.
C21_CorruptStateIsAbsent ==
  [][ /\ uncaught' = "none"
      /\ last'.op = "mount" =>
           /\ running'
           /\ "habits" \in corrupt => habits' = {}
           /\ "categories" \in corrupt => categories' = DEFAULT_CATEGORIES
           /\ "logs" \in corrupt =>
                logs' = syncTimersToLogs(EmptyMap, activeTimers')
           /\ "timers" \in corrupt =>
                /\ activeTimers' = EmptyMap
                /\ "logs" \in corrupt => logs' = EmptyMap ]_vars

\* the page has just been opened on a store that held an unparsable habit
\* catalog and an unparsable timer snapshot: nothing is loaded from either
C21_Witness ==
  /\ running
  /\ habits = {}
  /\ categories = DEFAULT_CATEGORIES
  /\ corrupt = {"timers"}
  /\ savedTimers # EmptyMap
  /\ activeTimers = EmptyMap
  /\ logs = EmptyMap
  /\ last.op = "mount"

\* C22: a failing write of the timer snapshot is not fatal.  When the write
\* fails during toggle, auto-stop (tick, onVisible), delete or rollover, no
\* error escapes, the application stays open, a toggle changes the in-memory
\* timers as it does when the write succeeds, and a later write that succeeds
\* leaves the stored snapshot equal to the in-memory timers.
C22_WriteFailureNonFatal ==
  [][ /\ ( /\ writeFails
           /\ last'.op \in {"toggleTimer", "tick", "onVisible", "deleteHabit",
                            "dayRolloverCheck"} )
         => /\ uncaught' = "none"
            /\ running'
            /\ last'.op = "toggleTimer" =>
                 activeTimers' =
                   IF last'.h \in DOMAIN activeTimers
                   THEN Rest(activeTimers, last'.h)
                   ELSE Put(activeTimers, last'.h,
                            startEntry(currentLog, last'.h, now))
      /\ ( ~writeFails /\ savedTimers' # savedTimers )
         => savedTimers' = activeTimers' ]_vars

\* C23: weekDays(offset, timezone, weekStart) is a list of exactly 7
\* consecutive dates, its first date falls on the configured weekStart
\* (getDay 1 for Monday, 0 for Sunday), and it contains today in the timezone
\* shifted by offset weeks.
C23_WeekDays ==
  /\ Len(weekDays) = 7
  /\ \A i \in 1..6 : weekDays[i + 1] = weekDays[i] + 1
  /\ getDay(weekDays[1]) = (IF userWeekStart = "monday" THEN 1 ELSE 0)
  /\ \E i \in 1..7 : weekDays[i] = getTodayInTimezone + 7 * weekOffset

\* a step that stops the timer of habit h: the manual stop of toggleTimer or
\* the auto-stop of tick or onVisible
stopsTimer(h) ==
  /\ h \in DOMAIN activeTimers
  /\ h \notin DOMAIN activeTimers'
  /\ last'.op \in {"toggleTimer", "tick", "onVisible"}

\* whole seconds from the start of the running timer to now
sessionSeconds == (now - last.start.startedAt) \div UnitsPerSecond

\* the timer that runs was started on today's date, which is also the date
\* of the stored pointer
startedToday ==
  /\ DateOf(last.start.startedAt) = getTodayInTimezone
  /\ today = getTodayInTimezone

\* C24: session accumulation.  A timer of habit H started when today's
\* elapsedTime of H was E0 and stopped d seconds later on the same date,
\* manually or by auto-stop, leaves today's elapsedTime of H at
\* min(E0 + d, MAX_SESSION_SECONDS).
C24_SessionAccumulation ==
  [][ ( /\ stopsTimer(last.startH)
        /\ startedToday )
      => Recorded(logs', today, last.startH).elapsedTime
           = Min(last.startE + sessionSeconds, MAX_SESSION_SECONDS) ]_vars

\* a second session: one second was recorded when the timer started, it was
\* stopped by hand one second later and the record holds the sum
C24_Witness ==
  /\ last.op = "toggleTimer"
  /\ last.startH = last.h
  /\ last.h \notin DOMAIN activeTimers
  /\ last.startE = 1
  /\ sessionSeconds = 1
  /\ DateOf(last.start.startedAt) = today
  /\ Recorded(logs, today, last.h).elapsedTime = 2

\* C25: the persisted timer snapshot tracks memory.  After toggle, auto-stop,
\* deleteHabit, rollover and resume, and so whenever the page is open, the
\* stored snapshot equals the in-memory timers; a restart resumes every
\* stored timer below the ceiling with the entry that was stored.
C25_SnapshotTracksMemory ==
  [][ /\ running' => savedTimers' = activeTimers'
      /\ last'.op = "mount" =>
           \A h \in DOMAIN savedTimers :
              resumeElapsed(savedTimers[h], now) < MAX_SESSION_SECONDS
              => /\ h \in DOMAIN activeTimers'
                 /\ activeTimers'[h] = savedTimers[h] ]_vars

\* two timers ran, the habit whose timer was started last has just been
\* deleted: the snapshot holds the other timer only, as memory does
C25_Witness ==
  /\ running
  /\ last.op = "deleteHabit"
  /\ last.startH = last.h
  /\ last.h \notin habits
  /\ DOMAIN savedTimers = Habits \ {last.h}
  /\ savedTimers = activeTimers

\* C26: all writers agree on the date key.  At every instant, the window
\* between local midnight and the next rollover check included, the tick sync,
\* the auto-stop, the manual stop of toggleTimer and increment and decrement
\* write into the log of the stored today pointer and into no other log.
C26_WritersAgreeOnDate ==
  [][ last'.op \in {"tick", "onVisible", "toggleTimer", "increment",
                    "decrement", "incrementDecrement"}
      => \A d \in DOMAIN logs' :
            d # today => (d \in DOMAIN logs /\ logs'[d] = logs[d]) ]_vars

\* C27: no lost update between accounting and timer.  When a single-step
\* count or time habit is incremented while its timer runs, the seconds the
\* increment added to elapsedTime (goal or oneTimeValue minutes) are still in
\* today's elapsedTime after the next tick, onVisible or stop of that timer,
\* up to the session ceiling.
C27_NoLostUpdate ==
  [][ ( /\ last.op = "increment"
        /\ last.h \in habits
        /\ last.h \in DOMAIN activeTimers
        /\ today = getTodayInTimezone
        /\ last'.op \in {"tick", "onVisible", "toggleTimer"} )
      => Recorded(logs', today, last.h).elapsedTime
           >= Min(last.pre.elapsedTime
                    + incrementMinsOf(cfg[last.h]) * SecondsPerMinute,
                  MAX_SESSION_SECONDS) ]_vars

\* C28: running a timer never reduces recorded time.  From the start of a
\* timer of habit H, no tick, onVisible or stop on the start date leaves
\* today's elapsedTime of H below its value at the start, also when that
\* value is at or above MAX_SESSION_SECONDS because of manual increments.
C28_TimerNeverReducesTime ==
  [][ ( /\ last.startH \in DOMAIN activeTimers
        /\ startedToday
        /\ last'.op \in {"tick", "onVisible", "toggleTimer"} )
      => Recorded(logs', today, last.startH).elapsedTime >= last.startE ]_vars

\* the timers a step of the timer engine works on: the stored snapshot when
\* the page is being opened, the in-memory timers otherwise
timersBefore == IF running THEN activeTimers ELSE savedTimers

\* C29: timer operations touch only elapsedTime.  Tick, onVisible, manual
\* stop, auto-stop, the resume sync and the rollover sync change, in the logs,
\* only the elapsedTime of habits that have an ActiveTimer: no log loses or
\* changes its mood, every record keeps completions, stepsCompleted,
\* moneyEarned, completed and skipped, and a habit without a running timer
\* keeps its record, or stays without one.
C29_TimerFrame ==
  [][ last'.op \in {"tick", "onVisible", "toggleTimer", "mount",
                    "dayRolloverCheck"}
      => /\ DOMAIN logs \subseteq DOMAIN logs'
         /\ \A d \in DOMAIN logs' :
              /\ LogOf(logs', d).mood = LogOf(logs, d).mood
              /\ \A h \in Habits :
                   /\ \A f \in (DOMAIN DefaultProgress) \ {"elapsedTime"} :
                        Recorded(logs', d, h)[f] = Recorded(logs, d, h)[f]
                   /\ h \notin DOMAIN timersBefore =>
                        /\ Recorded(logs', d, h) = Recorded(logs, d, h)
                        /\ h \in DOMAIN LogOf(logs', d).progress
                             <=> h \in DOMAIN LogOf(logs, d).progress ]_vars

\* a tick has just written one second for the skipped habit 1, whose timer
\* runs, on the day that has a mood and completions of habit 2, which has no
\* timer running
C29_Witness ==
  /\ last.op = "tick"
  /\ today = getTodayInTimezone
  /\ DOMAIN activeTimers = {1}
  /\ Recorded(logs, today, 1).elapsedTime = 1
  /\ Recorded(logs, today, 1).skipped
  /\ Recorded(logs, today, 2).completions > 0
  /\ currentLog.mood = 3

\* C30: every running timer eventually stops.  While the wall clock advances
\* and the 1 s tick keeps being delivered, an ActiveTimer entry that can reach
\* MAX_SESSION_SECONDS before the clock of the model ends is eventually
\* removed, by manual stop, deletion, rollover, or the auto-stop at the
\* ceiling at the latest.
C30_EveryTimerStops ==
  \A h \in Habits :
    ( /\ h \in DOMAIN activeTimers
      /\ activeTimers[h].startedAt + MAX_SESSION_SECONDS * UnitsPerSecond
           <= MaxClock )
    ~> (h \notin DOMAIN activeTimers)

\* a timer started on an empty record has just been removed by the tick at
\* the ceiling, on its start date
C30_Witness ==
  /\ running
  /\ last.op = "tick"
  /\ last.startH \in habits
  /\ last.startH \notin DOMAIN activeTimers
  /\ last.startE = 0
  /\ now = last.start.startedAt + MAX_SESSION_SECONDS * UnitsPerSecond
  /\ DateOf(last.start.startedAt) = getTodayInTimezone
  /\ Recorded(logs, getTodayInTimezone, last.startH).elapsedTime
       = MAX_SESSION_SECONDS
====
